---- MODULE Spec2Model ----
(***************************************************************************)
(* Content-creator front end: event handlers of src/src/app.py, the Gemini *)
(* client adapters of src/src/client/gemini_client.py and the start-up     *)
(* script.                                                                 *)
(*                                                                         *)
(* Python strings are sequences of text chunks (TLA+ strings); "+" and     *)
(* f-string interpolation are \o, the empty string is <<>>.  A radio value *)
(* is one chunk, None is the chunk NoneVal.                                *)
(***************************************************************************)
EXTENDS Integers, Sequences, FiniteSets, TLC

\* ------------------------------------------------------------------ bounds
\* number of distinct non-empty answers the LLM may give
NumOutputs == 2

\* ------------------------------------------------------------- python values
NoneVal == "None"
NL == "\n"

\* Python truthiness of a str (a sequence of chunks)
Truthy(s) == s # <<>>

\* Python truthiness of an Optional[str] radio value
TruthyOpt(v) == v \notin {NoneVal, ""}

\* what a user may type into a text field: nothing, or some text
UserTexts == {<<>>, <<"user text">>}
ModelOutputs == {<<>>} \cup {<<"answer" \o ToString(i)>> : i \in 1..NumOutputs}

\* s begins with p
IsPrefix(p, s) == Len(p) <= Len(s) /\ SubSeq(s, 1, Len(p)) = p

\* ------------------------------------------------------------------- enums
ContentInputType == {"Blog post", "Code"}
ContentOutputType ==
    {"Blog post", "GitHub README.md file", "Code base", "Code improvement",
     "Video walkthrough"}

\* ----------------------------------------------------------- base prompts
DEFAULT_README_PROMPT ==
    << "The readme must start with a summary of the app, what it does, and its purpose.", NL,
       "Create sections for 'How to use', 'Examples', 'Usage', 'Setup', and 'App workflow'.", NL,
       "Also, add explanations about the configs and the Makefile commands.", NL,
       "Use placeholders for the screenshots and architecture diagrams.", NL,
       "Add disclaimers if necessary." >>

DEFAULT_CODE_IMPROVEMENT_PROMPT ==
    << "Refactor this code by fixing any existing bug or by adding any relevant performance update.", NL,
       "Add documentation and typing to all the relevant places.", NL,
       "Make sure that the code uses the best practices.", NL,
       "Outline with comments in the code the modification made.", NL,
       "Only output the actual code, not the code diffs." >>

DEFAULT_CODE_BASE_PROMPT ==
    << "The code base must be object-oriented and make sure that the code uses the best practices.", NL,
       "Whenever necessary split the code into different files.", NL,
       "Create a 'configs.json' file with all the necessary configuration parameters to run the project.", NL,
       "Create a 'requirements.txt' file with all necessary dependencies." >>

DEFAULT_BLOG_POST_PROMPT ==
    << "The blog post must start with an engaging introduction about why its content is relevant.", NL,
       "Follow the introduction with a brief overview summary of its content.", NL,
       "The blog post should describe the main parts of the input step by step in an engaging way.", NL,
       "For the step-by-step description, when relevant, paste some code pieces from the source.", NL,
       "By the end add some closing thoughts and a conclusion summarizing the content.", NL,
       "If it makes sense add suggestions for the next steps." >>

\* str.strip(): drop the leading and the trailing whitespace chunks
Whitespace == {" ", NL, "\t"}

RECURSIVE LStrip(_)
LStrip(s) == IF s # <<>> /\ Head(s) \in Whitespace THEN LStrip(Tail(s)) ELSE s

RECURSIVE RStrip(_)
RStrip(s) ==
    IF s # <<>> /\ s[Len(s)] \in Whitespace
    THEN RStrip(SubSeq(s, 1, Len(s) - 1))
    ELSE s

Strip(s) == RStrip(LStrip(s))

\* ------------------------------------------------------------------ state
VARIABLES
    pc,                          \* position of the start-up script
    environ,                     \* what the start-up script finds: config file, env vars, SDK
    app_configs,                 \* app.py global app_configs
    geminiClient,                \* app.py global geminiClient
    repositoryParser,            \* app.py global repositoryParser
    input_summary_txt,           \* Textbox "Summary"
    input_tree_txt,              \* Textbox "Tree"
    input_content_txt,           \* Textbox "Content"
    additional_prompt,           \* Textbox "Additional prompt information"
    radio_output_type,           \* Radio "What kind of content ..."
    generated_content,           \* Textbox "Generated content"
    content_row,                 \* Row content_row: its visible flag
    generated_content_markdown,  \* Markdown: [visible, value]
    show_markdown_btn,           \* Button: its label
    calls,                       \* external calls made by the most recent event, in order
    last,                        \* the most recent event: handler, arguments, outcome
    hist                         \* history: last pristine output, last default prompt type

vars == << pc, environ, app_configs, geminiClient, repositoryParser,
           input_summary_txt, input_tree_txt, input_content_txt,
           additional_prompt, radio_output_type, generated_content, content_row,
           generated_content_markdown, show_markdown_btn, calls, last, hist >>

startup_vars == << pc, environ, app_configs, geminiClient, repositoryParser >>

\* ------------------------------------------------------- python data shapes
\* a str passed as an argument
PyStr(s) == [kind |-> "str", val |-> s]
\* a tuple of str
PyTuple(items) == [kind |-> "tuple", val |-> items]

\* gr.File value: None or an uploaded temp file with a name
\* a file path is the sequence of its characters
NoFile == [present |-> FALSE, name |-> <<>>]
UploadedFiles ==
    {[present |-> TRUE, name |-> <<"n", "o", "t", "e", "s", ".", "t", "x", "t">>]}

\* file_upload argument of the client: None, types.File or types.Part
NoUpload == [kind |-> "None", path |-> <<>>]

\* what open(file_path, "rb") and f.read() find: no file, a file that cannot
\* be read, or its bytes, which are valid UTF-8 or not
MissingFile == [status |-> "missing", utf8 |-> FALSE]
UnreadableFile == [status |-> "unreadable", utf8 |-> FALSE]
FileStates ==
    { MissingFile, UnreadableFile } \cup { [status |-> "ok", utf8 |-> b] : b \in BOOLEAN }

\* outcomes of the external SDK during one event: the first call that fails
\* (if any) and, when none fails, what the model answers
\* (file: the uploaded file on disk, gone exactly when the upload step fails)
SdkOutcomes ==
    { [upload |-> FALSE, file |-> MissingFile,
       count |-> TRUE, generate |-> TRUE, text |-> <<>>],
      [upload |-> TRUE, file |-> [status |-> "ok", utf8 |-> TRUE],
       count |-> FALSE, generate |-> TRUE, text |-> <<>>],
      [upload |-> TRUE, file |-> [status |-> "ok", utf8 |-> TRUE],
       count |-> TRUE, generate |-> FALSE, text |-> <<>>] }
    \cup { [upload |-> TRUE, file |-> [status |-> "ok", utf8 |-> TRUE],
             count |-> TRUE, generate |-> TRUE, text |-> t] : t \in ModelOutputs }

\* ----------------------------------------------------------------- client
\* BaseGeminiClient._build_prompt_content / VertexAIGeminiClient override
_build_prompt_content(prompt, file_upload) ==
    IF geminiClient.class = "VertexAIGeminiClient"
    THEN IF file_upload.kind # "None"
         THEN [error |-> "", contents |-> <<file_upload, prompt>>]
         ELSE [error |-> "", contents |-> <<prompt>>]
    ELSE IF file_upload.kind = "None"
         THEN [error |-> "", contents |-> <<prompt>>]
         ELSE IF file_upload.kind = "File"
         THEN [error |-> "",
               contents |-> << [kind |-> "Content",
                                parts |-> << [kind |-> "Part.from_uri",
                                              path |-> file_upload.path] >>],
                               prompt >>]
         ELSE IF file_upload.kind = "Part"
         THEN [error |-> "", contents |-> <<file_upload, prompt>>]
         ELSE [error |-> "TypeError", contents |-> <<prompt>>]

\* AIStudioGeminiClient.upload_file: one SDK call, files.upload
AIStudio_upload_file(file_path, sdk) ==
    [op |-> "upload_file", path |-> file_path, ok |-> sdk.upload,
     value |-> [kind |-> "File", path |-> file_path]]

\* str.split(sep) for a one-character separator
RECURSIVE split(_, _)
split(s, sep) ==
    IF \A i \in 1..Len(s) : s[i] # sep THEN << s >>
    ELSE LET i == CHOOSE j \in 1..Len(s) :
                      s[j] = sep /\ \A k \in 1..(j - 1) : s[k] # sep
         IN  << SubSeq(s, 1, i - 1) >> \o split(SubSeq(s, i + 1, Len(s)), sep)

\* str.lower() on the characters of the modelled paths
UpperToLower ==
    ("T" :> "t") @@ ("X" :> "x") @@ ("M" :> "m") @@ ("D" :> "d")
    @@ ("P" :> "p") @@ ("F" :> "f") @@ ("Y" :> "y")
lower(s) == [i \in 1..Len(s) |-> IF s[i] \in DOMAIN UpperToLower THEN UpperToLower[s[i]] ELSE s[i]]

ValueError(msg) ==
    [raised |-> TRUE, error |-> [type |-> "ValueError", msg |-> msg], value |-> NoUpload]
Part(part, mime_type, file_path) ==
    [raised |-> FALSE, error |-> [type |-> "", msg |-> ""],
     value |-> [kind |-> "Part", part |-> part, mime_type |-> mime_type, path |-> file_path]]
\* Part.from_text(file_content.decode()): bytes that are not UTF-8 raise
\* UnicodeDecodeError, a subclass of ValueError
FromDecodedText(file_path, file) ==
    IF file.utf8 THEN Part("text", NoneVal, file_path)
    ELSE [raised |-> TRUE, error |-> [type |-> "UnicodeDecodeError", msg |-> "decode"],
          value |-> NoUpload]

\* file_type_handlers, keyed by extension
file_type_handlers(file_path, file) ==
    (<<"t", "x", "t">> :> FromDecodedText(file_path, file))
    @@ (<<"m", "d">> :> FromDecodedText(file_path, file))
    @@ (<<"p", "d", "f">> :> Part("bytes", "application/pdf", file_path))
    @@ (<<"p", "y">> :> Part("bytes", "text/x-python-script", file_path))

\* _process_file_for_vertex looking the extension up before reading the file
_process_file_for_vertex_lookup_first(file_path, file) ==
    LET pieces == split(file_path, ".")
        file_extension == lower(pieces[Len(pieces)])
        handlers == file_type_handlers(file_path, file)
    IN  IF file_extension \notin DOMAIN handlers
        THEN ValueError("File extension not supported by Vertex AI")
        ELSE IF file.status = "missing" THEN ValueError("File not found")
        ELSE IF file.status # "ok" THEN ValueError("Error reading file")
        ELSE handlers[file_extension]

\* VertexAIGeminiClient._process_file_for_vertex
_process_file_for_vertex(file_path, file) ==
    LET pieces == split(file_path, ".")
        file_extension == lower(pieces[Len(pieces)])
        handlers == file_type_handlers(file_path, file)
    IN  IF file.status = "missing" THEN ValueError("File not found")
        ELSE IF file.status # "ok" THEN ValueError("Error reading file")
        ELSE IF file_extension \in DOMAIN handlers
        THEN handlers[file_extension]
        ELSE ValueError("File extension not supported by Vertex AI")

\* VertexAIGeminiClient.upload_file: the file is read and wrapped in a Part
Vertex_upload_file(file_path, sdk) ==
    LET r == _process_file_for_vertex(file_path, sdk.file)
    IN  [op |-> "upload_file", path |-> file_path, ok |-> ~r.raised,
         error |-> r.error, value |-> r.value]

upload_file(file_path, sdk) ==
    IF geminiClient.class = "VertexAIGeminiClient"
    THEN Vertex_upload_file(file_path, sdk)
    ELSE AIStudio_upload_file(file_path, sdk)

\* BaseGeminiClient.count_tokens: builds the contents, one SDK call
count_tokens(prompt, file_upload, sdk) ==
    LET built == _build_prompt_content(prompt, file_upload) IN
    [op |-> "count_tokens", prompt |-> prompt, file_upload |-> file_upload,
     contents |-> built.contents,
     ok |-> built.error = "" /\ sdk.count]

\* BaseGeminiClient.generate_content: builds the contents, one SDK call
generate_content(prompt, file_upload, sdk) ==
    LET built == _build_prompt_content(prompt, file_upload) IN
    [op |-> "generate_content", prompt |-> prompt, file_upload |-> file_upload,
     contents |-> built.contents,
     ok |-> built.error = "" /\ sdk.generate, value |-> sdk.text]

\* --------------------------------------------------------------- handlers
\* a handler's outcome: an exception (gr.Error or one raised by an external
\* call) or a return value, with the external calls it made
Raised(msg, made) == [raised |-> TRUE, error |-> msg, value |-> <<>>, branch |-> "none", calls |-> made]
Returned(v, b, made) == [raised |-> FALSE, error |-> "", value |-> v, branch |-> b, calls |-> made]

Bool01(b) == IF b THEN 1 ELSE 0

\* app.py generate_fn, lines 55-60: "no input at all"
NoInputProvided(input_text, input_file, parsed_repository_tree, parsed_repository_content) ==
    /\ ~Truthy(input_text)
    /\ ~input_file.present
    /\ ~(Truthy(parsed_repository_tree) /\ Truthy(parsed_repository_content))

\* app.py generate_fn, lines 63-76: "more than one input"
MultipleInputsProvided(input_text, input_file, parsed_repository_tree, parsed_repository_content) ==
    Bool01(Truthy(input_text)) + Bool01(input_file.present)
      + Bool01(Truthy(parsed_repository_tree) \/ Truthy(parsed_repository_content)) > 1

\* app.py generate_fn, lines 83-95
GenerateFromRepository(prompt, parsed_repository_tree, parsed_repository_content, additional_prompt_, sdk) ==
    LET p == PyTuple(<< parsed_repository_tree \o <<NL>> \o parsed_repository_content \o <<NL>>,
                        prompt \o <<NL>> \o additional_prompt_ >>)
        c1 == count_tokens(p, NoUpload, sdk)
        c2 == generate_content(p, NoUpload, sdk)
    IN  IF ~c1.ok THEN Raised("count_tokens failed", <<c1>>)
        ELSE IF ~c2.ok THEN Raised("generate_content failed", <<c1, c2>>)
        ELSE Returned(c2.value, "repository", <<c1, c2>>)

\* the file branch counting the tokens of the prompt alone
GenerateFromFile_count_without_file(prompt, input_file, additional_prompt_, sdk) ==
    LET p == PyStr(prompt \o <<NL>> \o additional_prompt_)
        u == upload_file(input_file.name, sdk)
        c1 == count_tokens(p, NoUpload, sdk)
        c2 == generate_content(p, u.value, sdk)
    IN  IF ~u.ok THEN Raised("upload_file failed", <<u>>)
        ELSE IF ~c1.ok THEN Raised("count_tokens failed", <<u, c1>>)
        ELSE IF ~c2.ok THEN Raised("generate_content failed", <<u, c1, c2>>)
        ELSE Returned(c2.value, "file", <<u, c1, c2>>)

\* app.py generate_fn, lines 97-109
GenerateFromFile(prompt, input_file, additional_prompt_, sdk) ==
    LET p == PyStr(prompt \o <<NL>> \o additional_prompt_)
        u == upload_file(input_file.name, sdk)
        c1 == count_tokens(p, u.value, sdk)
        c2 == generate_content(p, u.value, sdk)
    IN  IF ~u.ok THEN Raised("upload_file failed", <<u>>)
        ELSE IF ~c1.ok THEN Raised("count_tokens failed", <<u, c1>>)
        ELSE IF ~c2.ok THEN Raised("generate_content failed", <<u, c1, c2>>)
        ELSE Returned(c2.value, "file", <<u, c1, c2>>)

\* the text branch trying count_tokens a second time when it fails
GenerateFromText_retries_count(prompt, input_text, additional_prompt_, sdk) ==
    LET p == PyStr(prompt \o <<NL>> \o additional_prompt_ \o <<NL>> \o input_text)
        c1 == count_tokens(p, NoUpload, sdk)
        c2 == generate_content(p, NoUpload, sdk)
    IN  IF ~c1.ok THEN Raised("count_tokens failed", <<c1, c1>>)
        ELSE IF ~c2.ok THEN Raised("generate_content failed", <<c1, c2>>)
        ELSE Returned(c2.value, "text", <<c1, c2>>)

\* app.py generate_fn, lines 111-120
GenerateFromText(prompt, input_text, additional_prompt_, sdk) ==
    LET p == PyStr(prompt \o <<NL>> \o additional_prompt_ \o <<NL>> \o input_text)
        c1 == count_tokens(p, NoUpload, sdk)
        c2 == generate_content(p, NoUpload, sdk)
    IN  IF ~c1.ok THEN Raised("count_tokens failed", <<c1>>)
        ELSE IF ~c2.ok THEN Raised("generate_content failed", <<c1, c2>>)
        ELSE Returned(c2.value, "text", <<c1, c2>>)

\* generate_fn with the two type checks in the other order
generate_fn_output_type_first(input_text, input_file, parsed_repository_tree, parsed_repository_content, additional_prompt_, input_type, output_type, sdk) ==
    IF ~TruthyOpt(output_type) THEN Raised("Choose an output type", <<>>)
    ELSE IF ~TruthyOpt(input_type) THEN Raised("Choose an input type", <<>>)
    ELSE IF NoInputProvided(input_text, input_file, parsed_repository_tree, parsed_repository_content)
    THEN Raised("Provide an input file (text, repository or file)", <<>>)
    ELSE IF MultipleInputsProvided(input_text, input_file, parsed_repository_tree, parsed_repository_content)
    THEN Raised("Provide only a single input (text, repository or file)", <<>>)
    ELSE Returned(<<>>, "none", <<>>)

\* app.py generate_fn
generate_fn(input_text, input_file, parsed_repository_tree, parsed_repository_content, additional_prompt_, input_type, output_type, sdk) ==
    IF ~TruthyOpt(input_type) THEN Raised("Choose an input type", <<>>)
    ELSE IF ~TruthyOpt(output_type) THEN Raised("Choose an output type", <<>>)
    ELSE IF NoInputProvided(input_text, input_file, parsed_repository_tree, parsed_repository_content)
    THEN Raised("Provide an input file (text, repository or file)", <<>>)
    ELSE IF MultipleInputsProvided(input_text, input_file, parsed_repository_tree, parsed_repository_content)
    THEN Raised("Provide only a single input (text, repository or file)", <<>>)
    ELSE LET prompt == <<"Create a ", output_type, " based on this ", input_type, " input.">> IN
         IF Truthy(parsed_repository_tree) /\ Truthy(parsed_repository_content)
         THEN GenerateFromRepository(prompt, parsed_repository_tree, parsed_repository_content, additional_prompt_, sdk)
         ELSE IF input_file.present
         THEN GenerateFromFile(prompt, input_file, additional_prompt_, sdk)
         ELSE IF Truthy(input_text)
         THEN GenerateFromText(prompt, input_text, additional_prompt_, sdk)
         ELSE Returned(<<>>, "none", <<>>)

\* iterate_fn putting the new instructions before the previous output
iterate_fn_instructions_first(prompt, additional_prompt_, sdk) ==
    IF ~Truthy(prompt) THEN Raised("Input prompt is empty", <<>>)
    ELSE IF ~Truthy(additional_prompt_) THEN Raised("Iteration prompt is empty", <<>>)
    ELSE LET p == PyStr(additional_prompt_ \o <<NL>> \o prompt)
             c1 == count_tokens(p, NoUpload, sdk)
             c2 == generate_content(p, NoUpload, sdk)
         IN  IF ~c1.ok THEN Raised("count_tokens failed", <<c1>>)
             ELSE IF ~c2.ok THEN Raised("generate_content failed", <<c1, c2>>)
             ELSE Returned(c2.value, "iterate", <<c1, c2>>)

\* iterate_fn checking the instructions before the previous output
iterate_fn_checks_swapped(prompt, additional_prompt_, sdk) ==
    IF ~Truthy(additional_prompt_) THEN Raised("Iteration prompt is empty", <<>>)
    ELSE IF ~Truthy(prompt) THEN Raised("Input prompt is empty", <<>>)
    ELSE LET p == PyStr(prompt \o <<NL>> \o additional_prompt_)
             c1 == count_tokens(p, NoUpload, sdk)
             c2 == generate_content(p, NoUpload, sdk)
         IN  IF ~c1.ok THEN Raised("count_tokens failed", <<c1>>)
             ELSE IF ~c2.ok THEN Raised("generate_content failed", <<c1, c2>>)
             ELSE Returned(c2.value, "iterate", <<c1, c2>>)

\* app.py iterate_fn
iterate_fn(prompt, additional_prompt_, sdk) ==
    IF ~Truthy(prompt) THEN Raised("Input prompt is empty", <<>>)
    ELSE IF ~Truthy(additional_prompt_) THEN Raised("Iteration prompt is empty", <<>>)
    ELSE LET p == PyStr(prompt \o <<NL>> \o additional_prompt_)
             c1 == count_tokens(p, NoUpload, sdk)
             c2 == generate_content(p, NoUpload, sdk)
         IN  IF ~c1.ok THEN Raised("count_tokens failed", <<c1>>)
             ELSE IF ~c2.ok THEN Raised("generate_content failed", <<c1, c2>>)
             ELSE Returned(c2.value, "iterate", <<c1, c2>>)

\* outcomes of the external ingestion library: it fails, or gives a summary,
\* a tree and the concatenated content (empty when no file passed the filters)
IngestOutcomes ==
    { [ok |-> FALSE, summary |-> <<>>, tree |-> <<>>, content |-> <<>>],
      [ok |-> TRUE, summary |-> <<"summary">>, tree |-> <<"tree">>, content |-> <<"content">>],
      [ok |-> TRUE, summary |-> <<"summary">>, tree |-> <<"tree">>, content |-> <<>>] }

\* repository_parser.py RepositoryParser.parse_repository: one call of ingest
parse_repository(repository_path, max_file_size, include_patterns, exclude_patterns, ingested) ==
    [op |-> "ingest", source |-> repository_path, max_file_size |-> max_file_size,
     include_patterns |-> include_patterns, exclude_patterns |-> exclude_patterns,
     ok |-> ingested.ok,
     value |-> <<ingested.summary, ingested.tree, ingested.content>>]

\* the slider value in hundredths of a MB to bytes: int(max_file_size * 1024 * 1024)
MaxFileSizeBytes(hundredths) == (hundredths * 1024 * 1024) \div 100

\* app.py parse_repository_fn
parse_repository_fn(input_repository_path, max_file_size, include_patterns, exclude_patterns, ingested) ==
    LET c == parse_repository(input_repository_path, MaxFileSizeBytes(max_file_size),
                              include_patterns, exclude_patterns, ingested)
    IN  IF ~c.ok THEN Raised("ingest failed", <<c>>)
        ELSE Returned(c.value, "parse", <<c>>)

\* base_prompt_fn answering 'Code base' with the code-improvement prompt
base_prompt_fn_code_base_mixed_up(output_type, prompt) ==
    IF output_type = "GitHub README.md file" THEN Strip(DEFAULT_README_PROMPT)
    ELSE IF output_type = "Code improvement" THEN Strip(DEFAULT_CODE_IMPROVEMENT_PROMPT)
    ELSE IF output_type = "Code base" THEN Strip(DEFAULT_CODE_IMPROVEMENT_PROMPT)
    ELSE IF output_type = "Blog post" THEN Strip(DEFAULT_BLOG_POST_PROMPT)
    ELSE prompt

\* app.py base_prompt_fn
base_prompt_fn(output_type, prompt) ==
    IF output_type = "GitHub README.md file" THEN Strip(DEFAULT_README_PROMPT)
    ELSE IF output_type = "Code improvement" THEN Strip(DEFAULT_CODE_IMPROVEMENT_PROMPT)
    ELSE IF output_type = "Code base" THEN Strip(DEFAULT_CODE_BASE_PROMPT)
    ELSE IF output_type = "Blog post" THEN Strip(DEFAULT_BLOG_POST_PROMPT)
    ELSE prompt

\* app.py show_markdown_fn: the update of the Markdown (only the properties
\* passed to gr.Markdown are set) and the new label of the button
show_markdown_fn(content, btn) ==
    IF btn = "Show the markdown version"
    THEN [markdown |-> [set_value |-> TRUE, value |-> content, visible |-> TRUE],
          btn_text |-> "Hide the markdown version"]
    ELSE [markdown |-> [set_value |-> FALSE, value |-> <<>>, visible |-> FALSE],
          btn_text |-> "Show the markdown version"]

\* ---------------------------------------------------------------- start-up
\* a Python dict is a function on its keys; {} is the function on no key
EmptyDict == [k \in {} |-> NoneVal]
\* Optional[dict]: None, or a dict
PyNone == [none |-> TRUE, dict |-> EmptyDict]
PyDict(d) == [none |-> FALSE, dict |-> d]
TruthyDict(v) == ~v.none /\ DOMAIN v.dict # {}

Providers == {"ai_studio", "vertex_ai", "openai"}

LlmSections ==
    { EmptyDict, [model_id |-> "gemini"] }
    \cup { [provider |-> p, model_id |-> "gemini"] : p \in Providers }
VertexSections == { EmptyDict, [project |-> "proj", location |-> "loc"] }
ShareSections == { EmptyDict } \cup { [generate_public_url |-> b] : b \in BOOLEAN }

\* Entry(k, v): the dict {k: v}, or {} when the section is left out
Entry(k, v) == IF DOMAIN v = {} THEN EmptyDict ELSE (k :> v)

\* the contents a configs.yaml may have once parsed
ParsedConfigs ==
    { PyNone } \cup
    { PyDict(Entry("llm_model_configs", l) @@ Entry("vertex_ai", v) @@ s) :
        l \in LlmSections, v \in VertexSections, s \in ShareSections }

\* the file at config_path: absent, not YAML, present but not readable, or a
\* YAML document; json_dumps_ok tells whether json.dumps accepts every value
\* of the parsed document (it does not accept a YAML timestamp, for one)
ConfigFiles ==
    { [status |-> st, parsed |-> PyNone, json_dumps_ok |-> TRUE] :
        st \in {"missing", "invalid_yaml", "unreadable"} }
    \cup { [status |-> "ok", parsed |-> PyNone, json_dumps_ok |-> TRUE] }
    \cup { [status |-> "ok", parsed |-> c, json_dumps_ok |-> j] :
             c \in ParsedConfigs \ {PyNone}, j \in BOOLEAN }

\* GEMINI_API_KEY once load_dotenv() ran: unset, empty or a key
ApiKeys == {NoneVal, "", "key"}

Environments ==
    [config_file : ConfigFiles, GEMINI_API_KEY : ApiKeys, genai_client_ok : BOOLEAN]

\* config/config_loader.py load_config
load_config(config_file) ==
    IF config_file.status = "missing" THEN [raised |-> FALSE, value |-> PyNone]
    ELSE IF config_file.status = "invalid_yaml" THEN [raised |-> FALSE, value |-> PyNone]
    ELSE IF config_file.status = "unreadable" THEN [raised |-> TRUE, value |-> PyNone]
    ELSE IF ~config_file.json_dumps_ok THEN [raised |-> TRUE, value |-> PyNone]
    ELSE [raised |-> FALSE, value |-> config_file.parsed]

Unbound == [class |-> "unbound", client |-> FALSE, configs |-> EmptyDict]

\* AIStudioGeminiClient.__init__ accepting an empty API key
AIStudioGeminiClient_accepts_empty_key(configs, env) ==
    IF env.GEMINI_API_KEY = NoneVal
    THEN [raised |-> TRUE, error |-> "ValueError", obj |-> Unbound]
    ELSE IF ~env.genai_client_ok
    THEN [raised |-> TRUE, error |-> "genai.Client failed", obj |-> Unbound]
    ELSE [raised |-> FALSE, error |-> "",
          obj |-> [class |-> "AIStudioGeminiClient", client |-> TRUE, configs |-> configs]]

\* client/gemini_client.py AIStudioGeminiClient.__init__
AIStudioGeminiClient(configs, env) ==
    IF env.GEMINI_API_KEY \in {NoneVal, ""}
    THEN [raised |-> TRUE, error |-> "ValueError", obj |-> Unbound]
    ELSE IF ~env.genai_client_ok
    THEN [raised |-> TRUE, error |-> "genai.Client failed", obj |-> Unbound]
    ELSE [raised |-> FALSE, error |-> "",
          obj |-> [class |-> "AIStudioGeminiClient", client |-> TRUE, configs |-> configs]]

\* client/gemini_client.py VertexAIGeminiClient.__init__
VertexAIGeminiClient(configs, vertex_ai_configs, env) ==
    IF ~({"project", "location"} \subseteq DOMAIN vertex_ai_configs)
    THEN [raised |-> TRUE, error |-> "KeyError", obj |-> Unbound]
    ELSE IF ~env.genai_client_ok
    THEN [raised |-> TRUE, error |-> "genai.Client failed", obj |-> Unbound]
    ELSE [raised |-> FALSE, error |-> "",
          obj |-> [class |-> "VertexAIGeminiClient", client |-> TRUE, configs |-> configs]]

\* the state the start-up script ends in
Ended(p, err, cfg, client, parser) ==
    [pc |-> p, error |-> err, app_configs |-> cfg, geminiClient |-> client, repositoryParser |-> parser]

\* app.py, lines 397-408: the client for the configured provider
InitClient(cfg, env) ==
    IF "llm_model_configs" \notin DOMAIN cfg.dict
       \/ "provider" \notin DOMAIN cfg.dict["llm_model_configs"]
    THEN [raised |-> TRUE, error |-> "KeyError", obj |-> Unbound]
    ELSE IF cfg.dict["llm_model_configs"]["provider"] = "ai_studio"
    THEN AIStudioGeminiClient(cfg.dict["llm_model_configs"], env)
    ELSE IF cfg.dict["llm_model_configs"]["provider"] = "vertex_ai"
    THEN IF "vertex_ai" \notin DOMAIN cfg.dict
         THEN [raised |-> TRUE, error |-> "KeyError", obj |-> Unbound]
         ELSE VertexAIGeminiClient(cfg.dict["llm_model_configs"], cfg.dict["vertex_ai"], env)
    ELSE [raised |-> TRUE,
          error |-> "Invalid configs: 'provider' must be 'ai_studio' or 'vertex_ai'",
          obj |-> Unbound]

\* app.py, lines 388-418: the start-up script
main(env) ==
    LET loaded == load_config(env.config_file) IN
    IF loaded.raised THEN Ended("raised", "load_config failed", PyNone, Unbound, FALSE)
    ELSE IF ~TruthyDict(loaded.value) THEN Ended("exited", "", loaded.value, Unbound, FALSE)
    ELSE LET c == InitClient(loaded.value, env) IN
         IF c.raised THEN Ended("raised", c.error, loaded.value, Unbound, FALSE)
         ELSE IF "generate_public_url" \notin DOMAIN loaded.value.dict
         THEN Ended("raised", "KeyError", loaded.value, c.obj, FALSE)
         ELSE Ended("launched", "", loaded.value, c.obj, TRUE)

\* ------------------------------------------------------------ initial states
\* the widgets as the layout creates them (app.py, lines 241-386)
LayoutState ==
    /\ input_summary_txt = <<>>
    /\ input_tree_txt = <<>>
    /\ input_content_txt = <<>>
    /\ additional_prompt = <<>>
    /\ radio_output_type = NoneVal
    /\ generated_content = <<>>
    /\ content_row = FALSE
    /\ generated_content_markdown = [visible |-> FALSE, value |-> <<>>]
    /\ show_markdown_btn = "Show to markdown version"
    /\ calls = <<>>
    /\ last = [fn |-> "none"]
    /\ hist = [output |-> [valid |-> FALSE, by |-> "none", val |-> <<>>],
               default_type |-> NoneVal]

\* the process before the start-up script ran, in any environment
InitMain ==
    /\ pc = "start"
    /\ environ \in Environments
    /\ app_configs = PyNone
    /\ geminiClient = Unbound
    /\ repositoryParser = FALSE
    /\ LayoutState

\* app.py, lines 388-418, run to its end
Main ==
    /\ pc = "start"
    /\ \E r \in {main(environ)} :
       /\ pc' = r.pc
       /\ app_configs' = r.app_configs
       /\ geminiClient' = r.geminiClient
       /\ repositoryParser' = r.repositoryParser
       /\ last' = [fn |-> "main", error |-> r.error]
    /\ UNCHANGED << environ, input_summary_txt, input_tree_txt, input_content_txt,
                    additional_prompt, radio_output_type, generated_content, content_row,
                    generated_content_markdown, show_markdown_btn, calls, hist >>

NextMain == Main

SpecMain == InitMain /\ [][NextMain]_vars

\* app.py, line 390 alone: app_configs = load_config(CONFIG_PATH)
LoadConfig ==
    /\ pc = "start"
    /\ \E r \in {load_config(environ.config_file)} :
       /\ pc' = IF r.raised THEN "raised" ELSE "config_loaded"
       /\ app_configs' = IF r.raised THEN app_configs ELSE r.value
       /\ last' = [fn |-> "load_config", raised |-> r.raised, value |-> r.value]
    /\ UNCHANGED << environ, geminiClient, repositoryParser, input_summary_txt,
                    input_tree_txt, input_content_txt, additional_prompt,
                    radio_output_type, generated_content, content_row,
                    generated_content_markdown, show_markdown_btn, calls, hist >>

NextLoadConfig == LoadConfig

SpecLoadConfig == InitMain /\ [][NextLoadConfig]_vars

\* the environments of a served application, one for each provider (the
\* handlers read nothing of the environment but the client)
ServedEnvironments ==
    { e \in Environments :
        /\ main(e).pc = "launched"
        /\ e.GEMINI_API_KEY = "key"
        /\ "vertex_ai" \in DOMAIN e.config_file.parsed.dict
        /\ e.config_file.parsed.dict["generate_public_url"] = FALSE }

\* the application once demo.launch serves the layout
Init ==
    /\ environ \in ServedEnvironments
    /\ pc = main(environ).pc
    /\ app_configs = main(environ).app_configs
    /\ geminiClient = main(environ).geminiClient
    /\ repositoryParser = main(environ).repositoryParser
    /\ LayoutState

\* ------------------------------------------------------------------ events
\* A Gradio event sends the current values of the handler's input widgets.
\* The values of widgets only the user writes (input_text, input_file,
\* radio_input_type, additional_steps, the parsing parameters) are drawn
\* with each event; widgets a handler writes are state.

\* generate_content_btn.click showing the content row even when the handler raises
Generate_shows_row_on_failure ==
    /\ pc = "launched"
    /\ \E input_text \in UserTexts, input_file \in {NoFile} \cup UploadedFiles,
          input_type \in {NoneVal} \cup ContentInputType, sdk \in SdkOutcomes :
         \E r \in {generate_fn(input_text, input_file, input_tree_txt, input_content_txt,
                              additional_prompt, input_type, radio_output_type, sdk)} :
             /\ calls' = r.calls
             /\ last' = [fn |-> "generate_fn",
                         args |-> [input_text |-> input_text, input_file |-> input_file,
                                   parsed_repository_tree |-> input_tree_txt,
                                   parsed_repository_content |-> input_content_txt,
                                   additional_prompt |-> additional_prompt,
                                   input_type |-> input_type,
                                   output_type |-> radio_output_type],
                         raised |-> r.raised, error |-> r.error, branch |-> r.branch,
                         value |-> r.value]
             /\ IF r.raised
                THEN content_row' = TRUE /\ UNCHANGED << generated_content, hist >>
                ELSE /\ generated_content' = r.value
                     /\ content_row' = TRUE
                     /\ hist' = [hist EXCEPT !.output =
                                    [valid |-> TRUE, by |-> "generate_fn", val |-> r.value]]
    /\ UNCHANGED << startup_vars, input_summary_txt, input_tree_txt, input_content_txt,
                    additional_prompt, radio_output_type, generated_content_markdown,
                    show_markdown_btn >>

\* generate_content_btn.click (app.py, lines 365-378)
Generate ==
    /\ pc = "launched"
    /\ \E input_text \in UserTexts, input_file \in {NoFile} \cup UploadedFiles,
          input_type \in {NoneVal} \cup ContentInputType, sdk \in SdkOutcomes :
         \E r \in {generate_fn(input_text, input_file, input_tree_txt, input_content_txt,
                              additional_prompt, input_type, radio_output_type, sdk)} :
             /\ calls' = r.calls
             /\ last' = [fn |-> "generate_fn",
                         args |-> [input_text |-> input_text, input_file |-> input_file,
                                   parsed_repository_tree |-> input_tree_txt,
                                   parsed_repository_content |-> input_content_txt,
                                   additional_prompt |-> additional_prompt,
                                   input_type |-> input_type,
                                   output_type |-> radio_output_type],
                         raised |-> r.raised, error |-> r.error, branch |-> r.branch,
                         value |-> r.value]
             /\ IF r.raised
                THEN UNCHANGED << generated_content, content_row, hist >>
                ELSE /\ generated_content' = r.value
                     /\ content_row' = TRUE
                     /\ hist' = [hist EXCEPT !.output =
                                    [valid |-> TRUE, by |-> "generate_fn", val |-> r.value]]
    /\ UNCHANGED << startup_vars, input_summary_txt, input_tree_txt, input_content_txt,
                    additional_prompt, radio_output_type, generated_content_markdown,
                    show_markdown_btn >>

\* iterate_content_btn.click (app.py, lines 353-361)
Iterate ==
    /\ pc = "launched"
    /\ \E additional_steps \in UserTexts, sdk \in SdkOutcomes :
         \E r \in {iterate_fn(generated_content, additional_steps, sdk)} :
             /\ calls' = r.calls
             /\ last' = [fn |-> "iterate_fn",
                         args |-> [prompt |-> generated_content,
                                   additional_prompt |-> additional_steps],
                         pristine |-> hist.output,
                         raised |-> r.raised, error |-> r.error, value |-> r.value]
             /\ IF r.raised
                THEN UNCHANGED << generated_content, hist >>
                ELSE /\ generated_content' = r.value
                     /\ hist' = [hist EXCEPT !.output =
                                    [valid |-> TRUE, by |-> "iterate_fn", val |-> r.value]]
    /\ UNCHANGED << startup_vars, input_summary_txt, input_tree_txt, input_content_txt,
                    additional_prompt, radio_output_type, content_row,
                    generated_content_markdown, show_markdown_btn >>

\* parse_repository_btn.click (app.py, lines 296-310)
ParseRepository ==
    /\ pc = "launched"
    /\ \E max_file_size \in {1, 100}, ingested \in IngestOutcomes :
         \E r \in {parse_repository_fn(<<"repository">>, max_file_size, <<>>, <<>>, ingested)} :
             /\ calls' = r.calls
             /\ last' = [fn |-> "parse_repository_fn", raised |-> r.raised, error |-> r.error]
             /\ IF r.raised
                THEN UNCHANGED << input_summary_txt, input_tree_txt, input_content_txt >>
                ELSE /\ input_summary_txt' = r.value[1]
                     /\ input_tree_txt' = r.value[2]
                     /\ input_content_txt' = r.value[3]
    /\ UNCHANGED << startup_vars, additional_prompt, radio_output_type, generated_content,
                    content_row, generated_content_markdown, show_markdown_btn, hist >>

\* the output types for which base_prompts.py holds a default prompt
TypesWithDefault == {"GitHub README.md file", "Code improvement", "Code base", "Blog post"}

\* radio_output_type.change (app.py, lines 328-336)
ChangeOutputType ==
    /\ pc = "launched"
    /\ \E t \in ContentOutputType :
         /\ t # radio_output_type
         /\ radio_output_type' = t
         /\ additional_prompt' = base_prompt_fn(t, additional_prompt)
         /\ last' = [fn |-> "base_prompt_fn",
                     args |-> [output_type |-> t, prompt |-> additional_prompt]]
         /\ hist' = [hist EXCEPT !.default_type =
                        IF t \in TypesWithDefault THEN t ELSE hist.default_type]
    /\ calls' = <<>>
    /\ UNCHANGED << startup_vars, input_summary_txt, input_tree_txt, input_content_txt,
                    generated_content, content_row, generated_content_markdown,
                    show_markdown_btn >>

\* show_markdown_btn.click (app.py, lines 380-386)
ShowMarkdown ==
    /\ pc = "launched"
    /\ \E r \in {show_markdown_fn(generated_content, show_markdown_btn)} :
       /\ generated_content_markdown' =
            [visible |-> r.markdown.visible,
             value |-> IF r.markdown.set_value THEN r.markdown.value
                       ELSE generated_content_markdown.value]
       /\ show_markdown_btn' = r.btn_text
       /\ last' = [fn |-> "show_markdown_fn",
                   args |-> [content |-> generated_content, btn |-> show_markdown_btn],
                   was_visible |-> generated_content_markdown.visible]
    /\ calls' = <<>>
    /\ UNCHANGED << startup_vars, input_summary_txt, input_tree_txt, input_content_txt,
                    additional_prompt, radio_output_type, generated_content, content_row,
                    hist >>

\* the user types into the "Additional prompt information" box
EditAdditionalPrompt ==
    /\ pc = "launched"
    /\ \E v \in UserTexts :
         /\ v # additional_prompt
         /\ additional_prompt' = v
    /\ hist' = [hist EXCEPT !.default_type = NoneVal]
    /\ last' = [fn |-> "edit"]
    /\ calls' = <<>>
    /\ UNCHANGED << startup_vars, input_summary_txt, input_tree_txt, input_content_txt,
                    radio_output_type, generated_content, content_row,
                    generated_content_markdown, show_markdown_btn >>

\* the user types into the "Generated content" box (interactive=True), which
\* is on screen once content_row is visible
EditGeneratedContent ==
    /\ pc = "launched"
    /\ content_row
    /\ \E v \in UserTexts :
         /\ v # generated_content
         /\ generated_content' = v
    /\ hist' = [hist EXCEPT !.output = [valid |-> FALSE, by |-> "none", val |-> <<>>]]
    /\ last' = [fn |-> "edit"]
    /\ calls' = <<>>
    /\ UNCHANGED << startup_vars, input_summary_txt, input_tree_txt, input_content_txt,
                    additional_prompt, radio_output_type, content_row,
                    generated_content_markdown, show_markdown_btn >>

\* the user clears the "Tree" or the "Content" box of the parsed output
EditParsedOutput ==
    /\ pc = "launched"
    /\ \/ input_tree_txt # <<>> /\ input_tree_txt' = <<>> /\ UNCHANGED input_content_txt
       \/ input_content_txt # <<>> /\ input_content_txt' = <<>> /\ UNCHANGED input_tree_txt
    /\ last' = [fn |-> "edit"]
    /\ calls' = <<>>
    /\ UNCHANGED << startup_vars, input_summary_txt, additional_prompt, radio_output_type,
                    generated_content, content_row, generated_content_markdown,
                    show_markdown_btn, hist >>

\* ---------------------------------------------------------- specifications
\* The handlers touch disjoint groups of widgets: the parsed repository
\* (ParseRepository, EditParsedOutput), the additional prompt
\* (ChangeOutputType, EditAdditionalPrompt), the generated content (Generate,
\* Iterate, EditGeneratedContent) and the markdown view (ShowMarkdown).  Each
\* specification takes the events that write what its properties read.

\* generation: every event that feeds or runs a client call
Next ==
    \/ Generate
    \/ Iterate
    \/ ParseRepository
    \/ EditParsedOutput
    \/ ChangeOutputType
    \/ EditGeneratedContent

Spec == Init /\ [][Next]_vars

\* the markdown view and every event that writes the generated content
NextMarkdown ==
    \/ ShowMarkdown
    \/ Generate
    \/ Iterate
    \/ EditGeneratedContent
    \/ ChangeOutputType

SpecMarkdown == Init /\ [][NextMarkdown]_vars

\* the additional prompt and the generation that sends it
NextPrompt ==
    \/ ChangeOutputType
    \/ EditAdditionalPrompt
    \/ Generate

SpecPrompt == Init /\ [][NextPrompt]_vars

\* the pieces file paths are put together from, and the paths themselves
MaxPathParts == 3
PathParts ==
    { <<".">>, <<"/">>, <<"a">>, <<"z", "i", "p">>,
      <<"t", "x", "t">>, <<"T", "x", "T">>, <<"m", "d">>, <<"M", "D">>,
      <<"p", "d", "f">>, <<"P", "d", "f">>, <<"p", "y">>, <<"P", "Y">> }
RECURSIVE PathsOf(_)
PathsOf(n) ==
    IF n = 0 THEN { <<>> }
    ELSE LET shorter == PathsOf(n - 1)
         IN  shorter \cup { p \o w : p \in shorter, w \in PathParts }
FilePaths == PathsOf(MaxPathParts) \ { <<>> }

\* what the upload step meets outside the program: the file on disk and, for
\* AI Studio, whether files.upload answers; a path ending in '/' names no file
UploadOutcomes(file_path) ==
    { [upload |-> b, file |-> f] : b \in BOOLEAN,
        f \in { g \in FileStates : g.status = "ok" => file_path[Len(file_path)] # "/" } }

\* client.upload_file(file_path) called on its own, once, on the client the
\* start-up script built (the call reads and writes no state of the program)
UploadFile ==
    /\ pc = "launched"
    /\ last.fn = "none"
    /\ \E file_path \in FilePaths :
         \E sdk \in UploadOutcomes(file_path) :
           \E u \in {upload_file(file_path, sdk)} :
              /\ calls' = << u >>
              /\ last' = [fn |-> "upload_file",
                          args |-> [file_path |-> file_path, file |-> sdk.file],
                          raised |-> ~u.ok, value |-> u.value]
    /\ UNCHANGED << startup_vars, input_summary_txt, input_tree_txt, input_content_txt,
                    additional_prompt, radio_output_type, generated_content, content_row,
                    generated_content_markdown, show_markdown_btn, hist >>

NextUpload == UploadFile

SpecUpload == Init /\ [][NextUpload]_vars

\* ------------------------------------------------------------- properties
\* the three input modes of the specification
TextSupplied(input_text) == Truthy(input_text)
FileSupplied(input_file) == input_file.present
RepositorySupplied(tree, content) == Truthy(tree) /\ Truthy(content)

\* the number of input modes supplied to the most recent generate_fn call:
\* non-empty text, an uploaded file, a parsed repository (tree and content)
ModesSupplied ==
    Bool01(TextSupplied(last.args.input_text))
      + Bool01(FileSupplied(last.args.input_file))
      + Bool01(RepositorySupplied(last.args.parsed_repository_tree,
                                  last.args.parsed_repository_content))

TypesChosen == TruthyOpt(last.args.input_type) /\ TruthyOpt(last.args.output_type)

ValidationErrors ==
    { "Choose an input type", "Choose an output type",
      "Provide an input file (text, repository or file)",
      "Provide only a single input (text, repository or file)" }

\* the input mode a generate_fn call ran, read off the calls it made
RanTextBranch ==
    /\ Len(calls) >= 1
    /\ calls[1].op = "count_tokens"
    /\ calls[1].file_upload = NoUpload
    /\ calls[1].prompt.kind = "str"
    /\ IsPrefix(<<"Create a ">>, calls[1].prompt.val)
RanFileBranch == Len(calls) >= 1 /\ calls[1].op = "upload_file"
RanRepositoryBranch ==
    /\ Len(calls) >= 1
    /\ calls[1].op = "count_tokens"
    /\ calls[1].prompt.kind = "tuple"

\* C1: with both types set, generate_fn raises the no-input error when no
\* mode is supplied, the single-input error when more than one is, and runs
\* exactly the supplied mode's branch when exactly one is.
C1_ExactlyOneModeRuns ==
    (last.fn = "generate_fn" /\ TypesChosen) =>
        /\ ModesSupplied = 0 =>
              /\ last.raised
              /\ last.error = "Provide an input file (text, repository or file)"
        /\ ModesSupplied > 1 =>
              /\ last.raised
              /\ last.error = "Provide only a single input (text, repository or file)"
        /\ ModesSupplied = 1 =>
              /\ last.error \notin ValidationErrors
              /\ TextSupplied(last.args.input_text) => RanTextBranch
              /\ FileSupplied(last.args.input_file) => RanFileBranch
              /\ RepositorySupplied(last.args.parsed_repository_tree,
                                    last.args.parsed_repository_content)
                    => RanRepositoryBranch

\* C2: a missing input type, then a missing output type, then no input, then
\* several inputs: the first check that fails in this order gives the error,
\* and a validation error comes with no client call at all.
C2_ValidationOrder ==
    last.fn = "generate_fn" =>
        /\ ~TruthyOpt(last.args.input_type) =>
              last.raised /\ last.error = "Choose an input type"
        /\ (TruthyOpt(last.args.input_type) /\ ~TruthyOpt(last.args.output_type)) =>
              last.raised /\ last.error = "Choose an output type"
        /\ (TypesChosen /\ ModesSupplied = 0) =>
              last.raised /\ last.error = "Provide an input file (text, repository or file)"
        /\ (TypesChosen /\ ModesSupplied > 1) =>
              last.raised /\ last.error = "Provide only a single input (text, repository or file)"
        /\ last.error = "Provide only a single input (text, repository or file)" =>
              TypesChosen /\ ModesSupplied >= 1
        /\ last.error \in ValidationErrors => last.raised /\ calls = <<>>
        /\ ~last.raised => TypesChosen /\ calls # <<>>

\* both types missing and two inputs supplied: the input type is reported
C2_Witness ==
    /\ last.fn = "generate_fn"
    /\ ~TruthyOpt(last.args.input_type)
    /\ ~TruthyOpt(last.args.output_type)
    /\ ModesSupplied > 1
    /\ last.error = "Choose an input type"
    /\ calls = <<>>

\* the names of the external calls of the most recent event, in order
CallOps == [i \in DOMAIN calls |-> calls[i].op]

\* C3: a successful generate_fn or iterate_fn made its calls one after the
\* other: in file mode upload_file, count_tokens, generate_content, each
\* once, the two last with the uploaded file; otherwise count_tokens then
\* generate_content, each once and without a file; both got the same prompt.
C3_SequentialCalls ==
    (last.fn \in {"generate_fn", "iterate_fn"} /\ ~last.raised) =>
        LET fileMode == last.fn = "generate_fn" /\ FileSupplied(last.args.input_file)
            n == Len(calls)
        IN  /\ \A i \in DOMAIN calls : calls[i].ok
            /\ IF fileMode
               THEN /\ CallOps = <<"upload_file", "count_tokens", "generate_content">>
                    /\ calls[1].path = last.args.input_file.name
                    /\ calls[2].file_upload = calls[1].value
                    /\ calls[3].file_upload = calls[1].value
               ELSE /\ CallOps = <<"count_tokens", "generate_content">>
                    /\ calls[1].file_upload = NoUpload
                    /\ calls[2].file_upload = NoUpload
            /\ calls[n - 1].prompt = calls[n].prompt
            /\ calls[n - 1].contents = calls[n].contents
            /\ last.value = calls[n].value

\* a successful generation from an uploaded file
C3_Witness ==
    /\ last.fn = "generate_fn"
    /\ ~last.raised
    /\ FileSupplied(last.args.input_file)
    /\ Len(calls) = 3
    /\ calls[3].value # <<>>

\* C4: an event makes each external call at most once; a call that fails is
\* the last call of the event and its failure leaves the handler.
C4_NoRetry ==
    /\ \A i, j \in DOMAIN calls : calls[i].op = calls[j].op => i = j
    /\ \A i \in DOMAIN calls :
          ~calls[i].ok =>
              /\ i = Len(calls)
              /\ last.fn \in {"generate_fn", "iterate_fn", "parse_repository_fn"}
              /\ last.raised
              /\ last.error = calls[i].op \o " failed"
    /\ (last.fn \in {"generate_fn", "iterate_fn", "parse_repository_fn"} /\ ~last.raised) =>
          \A i \in DOMAIN calls : calls[i].ok

\* count_tokens failed after a successful upload: generate_content was not called
C4_Witness ==
    /\ last.fn = "generate_fn"
    /\ last.raised
    /\ CallOps = <<"upload_file", "count_tokens">>
    /\ calls[1].ok
    /\ ~calls[2].ok

\* C5: a successful iterate_fn sent the generated content, a newline and the
\* instructions, and its answer is the new generated content; when the
\* generated content was the untouched output of the previous successful
\* generate or iterate, the prompt begins with that output.
C5_IterateResubmits ==
    (last.fn = "iterate_fn" /\ ~last.raised) =>
        /\ calls[1].prompt = PyStr(last.args.prompt \o <<NL>> \o last.args.additional_prompt)
        /\ calls[2].prompt = calls[1].prompt
        /\ generated_content = calls[2].value
        /\ hist.output = [valid |-> TRUE, by |-> "iterate_fn", val |-> generated_content]
        /\ last.pristine.valid => IsPrefix(last.pristine.val, calls[1].prompt.val)

\* an iteration over the untouched output of the iteration before it
C5_Witness ==
    /\ last.fn = "iterate_fn"
    /\ ~last.raised
    /\ last.pristine.valid
    /\ last.pristine.by = "iterate_fn"
    /\ last.pristine.val # generated_content
    /\ generated_content # <<>>

\* C6: iterate_fn raises 'Input prompt is empty' for an empty previous
\* output, else 'Iteration prompt is empty' for empty instructions, and makes
\* no client call in either case.
C6_IterateValidation ==
    last.fn = "iterate_fn" =>
        /\ ~Truthy(last.args.prompt) =>
              last.raised /\ last.error = "Input prompt is empty" /\ calls = <<>>
        /\ (Truthy(last.args.prompt) /\ ~Truthy(last.args.additional_prompt)) =>
              last.raised /\ last.error = "Iteration prompt is empty" /\ calls = <<>>
        /\ (Truthy(last.args.prompt) /\ Truthy(last.args.additional_prompt)) =>
              calls # <<>>

\* both the previous output and the instructions are empty
C6_Witness ==
    /\ last.fn = "iterate_fn"
    /\ ~Truthy(last.args.prompt)
    /\ ~Truthy(last.args.additional_prompt)
    /\ last.error = "Input prompt is empty"

\* C7: the prompt of every count_tokens and generate_content call is one
\* string, and the contents are [prompt] or [file part, prompt].
C7_PromptIsOneString ==
    \A i \in DOMAIN calls :
        calls[i].op \in {"count_tokens", "generate_content"} =>
            /\ calls[i].prompt.kind = "str"
            /\ \/ calls[i].contents = <<calls[i].prompt>>
               \/ /\ Len(calls[i].contents) = 2
                  /\ calls[i].contents[1].kind \in {"Content", "Part"}
                  /\ calls[i].contents[2] = calls[i].prompt

\* the default prompt of an output type, stripped
StrippedDefaultOf(t) ==
    IF t = "GitHub README.md file" THEN Strip(DEFAULT_README_PROMPT)
    ELSE IF t = "Code improvement" THEN Strip(DEFAULT_CODE_IMPROVEMENT_PROMPT)
    ELSE IF t = "Code base" THEN Strip(DEFAULT_CODE_BASE_PROMPT)
    ELSE Strip(DEFAULT_BLOG_POST_PROMPT)

\* C8: a change of the output type to README, code improvement, code base or
\* blog post puts that type's stripped default prompt into the additional
\* prompt; a change to any other type leaves it as it was; so the field
\* holds the default of the last selected type that has one, until the user
\* edits it.
C8_BasePrompt ==
    /\ last.fn = "base_prompt_fn" =>
          IF last.args.output_type \in TypesWithDefault
          THEN additional_prompt = StrippedDefaultOf(last.args.output_type)
          ELSE additional_prompt = last.args.prompt
    /\ hist.default_type # NoneVal =>
          additional_prompt = StrippedDefaultOf(hist.default_type)

\* 'Video walkthrough' selected after 'Code base': the code-base prompt stays
C8_Witness ==
    /\ last.fn = "base_prompt_fn"
    /\ last.args.output_type = "Video walkthrough"
    /\ hist.default_type = "Code base"
    /\ additional_prompt = Strip(DEFAULT_CODE_BASE_PROMPT)

\* C9: every click on the show/hide button flips the markdown between hidden
\* and visible, from the initial state on, and a click that shows it sets
\* its value to the generated content.
C9_MarkdownToggles ==
    last.fn = "show_markdown_fn" =>
        /\ generated_content_markdown.visible = ~last.was_visible
        /\ generated_content_markdown.visible =>
              generated_content_markdown.value = last.args.content

\* the configuration the start-up script found, when it could be loaded
ConfigLoaded ==
    /\ environ.config_file.status = "ok"
    /\ environ.config_file.json_dumps_ok
    /\ TruthyDict(environ.config_file.parsed)
ConfiguredProvider ==
    IF /\ ConfigLoaded
       /\ "llm_model_configs" \in DOMAIN environ.config_file.parsed.dict
       /\ "provider" \in DOMAIN environ.config_file.parsed.dict["llm_model_configs"]
    THEN environ.config_file.parsed.dict["llm_model_configs"]["provider"]
    ELSE NoneVal

\* C10: the UI is launched only with the configuration loaded, the provider
\* 'ai_studio' or 'vertex_ai', the matching client constructed and the
\* RepositoryParser created; a configuration that is missing or does not load
\* ends the program, another provider raises, 'ai_studio' without a
\* non-empty GEMINI_API_KEY raises ValueError; no client is ever half built.
C10_LaunchAfterStartup ==
    /\ pc = "launched" =>
          /\ ConfigLoaded
          /\ app_configs = environ.config_file.parsed
          /\ ConfiguredProvider \in {"ai_studio", "vertex_ai"}
          /\ ConfiguredProvider = "ai_studio" =>
                /\ geminiClient.class = "AIStudioGeminiClient"
                /\ environ.GEMINI_API_KEY \notin {NoneVal, ""}
          /\ ConfiguredProvider = "vertex_ai" => geminiClient.class = "VertexAIGeminiClient"
          /\ geminiClient.client
          /\ geminiClient.configs = app_configs.dict["llm_model_configs"]
          /\ repositoryParser
    /\ pc # "start" =>
          /\ ~ConfigLoaded => pc \in {"exited", "raised"}
          /\ (environ.config_file.status \in {"missing", "invalid_yaml"}
                \/ (/\ environ.config_file.status = "ok"
                    /\ environ.config_file.json_dumps_ok
                    /\ ~ConfigLoaded)) => pc = "exited"
          /\ (ConfigLoaded /\ ConfiguredProvider \notin {"ai_studio", "vertex_ai", NoneVal}) =>
                /\ pc = "raised"
                /\ last.error = "Invalid configs: 'provider' must be 'ai_studio' or 'vertex_ai'"
          /\ (ConfiguredProvider = "ai_studio" /\ environ.GEMINI_API_KEY \in {NoneVal, ""}) =>
                pc = "raised" /\ last.error = "ValueError"
          /\ pc # "launched" => ~repositoryParser
    /\ \/ geminiClient = Unbound
       \/ /\ geminiClient.class \in {"AIStudioGeminiClient", "VertexAIGeminiClient"}
          /\ geminiClient.client
          /\ DOMAIN geminiClient.configs # {}

\* a launch with the AI Studio client
C10_Witness ==
    /\ pc = "launched"
    /\ geminiClient.class = "AIStudioGeminiClient"
    /\ environ.GEMINI_API_KEY = "key"
    /\ repositoryParser

\* C11: load_config returns the parsed dictionary when the file exists and is
\* valid YAML, and returns None without raising when the file is not found or
\* the YAML cannot be parsed.
C11_LoadConfig ==
    (last.fn = "load_config") =>
        /\ environ.config_file.status = "ok" =>
              /\ ~last.raised
              /\ ~last.value.none
              /\ last.value = environ.config_file.parsed
        /\ environ.config_file.status \in {"missing", "invalid_yaml"} =>
              /\ ~last.raised
              /\ last.value = PyNone

\* the text after the last '.' of a path (all of it when it holds no '.')
AfterLastDot(p) ==
    LET dots == { i \in 1..Len(p) : p[i] = "." }
    IN  IF dots = {} THEN p
        ELSE SubSeq(p, (CHOOSE i \in dots : \A k \in dots : k <= i) + 1, Len(p))
\* one letter in either case
CaseOf ==
    { <<"t", "T">>, <<"x", "X">>, <<"m", "M">>, <<"d", "D">>,
      <<"p", "P">>, <<"f", "F">>, <<"y", "Y">> }
IsExtension(text, e) ==
    /\ Len(text) = Len(e)
    /\ \A i \in 1..Len(e) : text[i] = e[i] \/ << e[i], text[i] >> \in CaseOf
IsValueErrorWith(u, msg) ==
    ~u.ok /\ u.error = [type |-> "ValueError", msg |-> msg]

\* C12: on Vertex AI upload_file accepts exactly txt, md, pdf and py, in any
\* case, read off the text after the last '.': txt and md give a text part,
\* pdf 'application/pdf' bytes, py 'text/x-python-script' bytes; any other
\* extension raises ValueError, and so does a file that is missing or cannot
\* be read, whatever its extension (a missing file reports 'File not found').
C12_VertexUploadFile ==
    (last.fn = "upload_file" /\ geminiClient.class = "VertexAIGeminiClient") =>
        LET p == last.args.file_path
            f == last.args.file
            ext == AfterLastDot(p)
            u == calls[1]
        IN  /\ Len(calls) = 1
            /\ u.path = p
            /\ f.status = "missing" => IsValueErrorWith(u, "File not found")
            /\ f.status = "unreadable" => IsValueErrorWith(u, "Error reading file")
            /\ f.status = "ok" =>
                  /\ (IsExtension(ext, <<"t", "x", "t">>) \/ IsExtension(ext, <<"m", "d">>)) =>
                        IF f.utf8
                        THEN u.ok /\ u.value.kind = "Part" /\ u.value.part = "text"
                        ELSE ~u.ok /\ u.error.type \in {"ValueError", "UnicodeDecodeError"}
                  /\ IsExtension(ext, <<"p", "d", "f">>) =>
                        /\ u.ok /\ u.value.kind = "Part" /\ u.value.part = "bytes"
                        /\ u.value.mime_type = "application/pdf"
                  /\ IsExtension(ext, <<"p", "y">>) =>
                        /\ u.ok /\ u.value.kind = "Part" /\ u.value.part = "bytes"
                        /\ u.value.mime_type = "text/x-python-script"
                  /\ (\A e \in { <<"t", "x", "t">>, <<"m", "d">>, <<"p", "d", "f">>, <<"p", "y">> } :
                         ~IsExtension(ext, e)) =>
                        IsValueErrorWith(u, "File extension not supported by Vertex AI")
            /\ u.ok => u.value.path = p

\* a missing file with an unsupported extension reported as not found
C12_Witness ==
    /\ last.fn = "upload_file"
    /\ geminiClient.class = "VertexAIGeminiClient"
    /\ last.args.file.status = "missing"
    /\ last.args.file_path = <<"a", ".", "z", "i", "p">>
    /\ last.raised
    /\ calls[1].error.msg = "File not found"

\* the widgets the generate and iterate events write to or sit next to
OutputWidgets ==
    << generated_content, content_row, generated_content_markdown, show_markdown_btn >>

\* C13: a generate or iterate event whose handler raises (a validation error
\* or a failing client call) changes no output widget: the generated content,
\* the visibility of its row, the markdown view and the toggle label stay as
\* they were; an event whose handler returns writes the returned value, and
\* only generate shows the row.
C13_FailureLeavesUI ==
    [][ /\ (last'.fn \in {"generate_fn", "iterate_fn"} /\ last'.raised) =>
              UNCHANGED OutputWidgets
        /\ (last'.fn \in {"generate_fn", "iterate_fn"} /\ ~last'.raised) =>
              /\ generated_content' = last'.value
              /\ content_row' = (content_row \/ last'.fn = "generate_fn")
              /\ UNCHANGED << generated_content_markdown, show_markdown_btn >>
      ]_vars

\* a failed iteration while content is generated and its markdown view shown
C13_Witness ==
    /\ last.fn = "iterate_fn"
    /\ last.raised
    /\ last.error = "generate_content failed"
    /\ generated_content # <<>>
    /\ content_row
    /\ generated_content_markdown.visible

====
